---- MODULE Spec2Model ----
(***************************************************************************)
(* Model of the social-engager core: Discovery (core/discovery.py),        *)
(* Engagement (core/engagement.py), Analytics (core/analytics.py) and the  *)
(* SocialEngagementEngine (core/engine.py) that wires them together.       *)
(*                                                                         *)
(* Four specifications:                                                    *)
(*   Spec           one engine running discover_and_engage calls in        *)
(*                  sequence over the ledger (tables engagements and       *)
(*                  daily_stats)                                           *)
(*   SpecLedger     two connections running Analytics.record statement by  *)
(*                  statement, with crashes                                *)
(*   SpecDiscovery  one Discovery.discover call, platform by platform      *)
(*   SpecGenerate   Engagement.generate_comment, call after call           *)
(***************************************************************************)
EXTENDS Integers, Sequences, FiniteSets, TLC

VARIABLES
    \* ---- Analytics (engagement.db) --------------------------------------
    ledger,            \* committed rows of table engagements, in id order
    daily_stats,       \* committed rows of table daily_stats, keyed by date
    today,             \* the calendar date datetime.now() falls on
    \* ---- SocialEngagementEngine ----------------------------------------
    adapters,          \* self.adapters: the platforms that have an adapter
    llm,               \* self.engagement.llm: "none" or "configured"
    discovery_config,  \* argument of discover_and_engage
    engagement_config, \* argument of discover_and_engage
    pc,                \* position inside discover_and_engage / engage
    calls,             \* number of discover_and_engage calls started
    discovered,        \* results["discovered"]
    to_engage,         \* to_engage (after Phase 2)
    engaged,           \* results["engaged"]
    failed,            \* results["failed"]
    platform_idx,      \* position of the Phase 3 loop in config.platforms
    ledger_at_call,    \* number of ledger rows when the current call began
    \* ---- Engagement.engage ---------------------------------------------
    posts,             \* argument posts
    i,                 \* enumerate index of the loop (0-based, as in code)
    delay,             \* the delay last slept
    comment,           \* comments[0] of the current post
    result,            \* result of adapter.comment for the current post
    results,           \* the list engage returns
    raised,            \* the exception that left engage, "none" if none
    \* ---- the platform side of the adapters ------------------------------
    comment_calls,     \* per post id, how often adapter.comment was invoked
    engage_comment_calls, \* adapter.comment invocations in this engage call
    slept,             \* a sleep has completed since the last adapter.comment
    \* ---- Analytics.record run statement by statement (SpecLedger) -------
    wpc,               \* per connection: position inside record
    wresult,           \* per connection: the result being recorded
    wdate,             \* per connection: the local variable date
    wrow,              \* per connection: uncommitted engagements rows
    wstats,            \* per connection: its view of table daily_stats
    lock,              \* the connection holding sqlite's write lock, 0 if none
    \* ---- Discovery.discover run platform by platform (SpecDiscovery) ----
    searched,          \* the platforms whose search_posts has been invoked
    dpc,               \* position inside discover
    dk,                \* position of the loop of discover in config.platforms
    candidates,        \* the local results of discover, before the sort
    searches,          \* per platform, what its search_posts did when invoked
    \* ---- Engagement.generate_comment, call by call (SpecGenerate) --------
    gen_log            \* per generate_comment call: post, response, comments

engineVars == <<adapters, llm, discovery_config, engagement_config, calls,
                discovered, to_engage, engaged, failed, platform_idx,
                ledger_at_call>>
engageVars == <<posts, i, delay, comment, result, results, raised>>
platformVars == <<comment_calls, engage_comment_calls, slept>>
writerVars == <<wpc, wresult, wdate, wrow, wstats, lock>>
discoverVars == <<dpc, dk, candidates, searches>>
unitVars == <<discoverVars, gen_log>>
vars == <<ledger, daily_stats, today, pc, engineVars, engageVars,
          platformVars, writerVars, searched, unitVars>>

(***************************************************************************)
(* Bounds of the model                                                     *)
(***************************************************************************)
MaxCalls == 2
MaxDays == 2
MaxSearch == 2
MaxRecords == 2
MaxLimit == 3
MaxGenerate == 2

(***************************************************************************)
(* adapters/base.py                                                        *)
(***************************************************************************)
INSTAGRAM == "instagram"
TWITTER == "twitter"
Platform == {INSTAGRAM, TWITTER}

\* hours_old of a post that has no timestamp
NoTimestamp == -1

Post(platform, post_id, author, likes, hours_old, hashtags, content) ==
    [platform |-> platform, post_id |-> post_id, author |-> author,
     likes |-> likes, hours_old |-> hours_old, hashtags |-> hashtags,
     content |-> content]

\* The posts the platforms can return from a search.  content is the set of
\* lower-cased words the text contains.
PostPool ==
    { Post(INSTAGRAM, "p1", "alice", 80, 0, <<"#Climbing">>, {"rope"}),
      Post(INSTAGRAM, "p2", "bob", 200, 30, <<"#climbing">>, {}),
      Post(TWITTER, "p3", "carol", 120, NoTimestamp, <<>>, {"rope"}) }

PostIds == {p.post_id : p \in PostPool}

EngagementResult(success, platform, action, post_id, message, error) ==
    [success |-> success, platform |-> platform, action |-> action,
     post_id |-> post_id, message |-> message, error |-> error]

NoResult == EngagementResult(FALSE, "", "", "", "", "")

Actions == {"comment", "like", "follow"}

(***************************************************************************)
(* core/analytics.py                                                       *)
(***************************************************************************)
StatCols == {"comments_posted", "likes_posted", "follows_posted"}

ZeroStats ==
    [comments_posted |-> 0, likes_posted |-> 0, follows_posted |-> 0,
     success_count |-> 0, failure_count |-> 0]

\* action_col = f"{result.action}s_posted"
ActionCol(action) ==
    CASE action = "comment" -> "comments_posted"
      [] action = "like" -> "likes_posted"
      [] action = "follow" -> "follows_posted"
      [] OTHER -> "others_posted"

\* 1 if result.success else 0
SuccessInt(success) == IF success THEN 1 ELSE 0

\* The row INSERT INTO engagements adds.  id is the AUTOINCREMENT key; date
\* is the date record computes for the row's daily_stats update (the columns
\* post_author, comment and timestamp are not read by the modelled code).
EngagementRow(rows, r, date) ==
    [id |-> Len(rows) + 1, platform |-> r.platform, action |-> r.action,
     post_id |-> r.post_id, success |-> SuccessInt(r.success),
     error |-> r.error, date |-> date]

InsertEngagement(rows, r, date) == Append(rows, EngagementRow(rows, r, date))

\* The upsert with failure_count left out of DO UPDATE SET
UpsertStatsNoFailure(stats, date, col, success) ==
    IF date \in DOMAIN stats
    THEN [stats EXCEPT ![date] =
            [@ EXCEPT ![col] = @ + 1,
                      !.success_count = @ + SuccessInt(success)]]
    ELSE stats @@ (date :>
            [ZeroStats EXCEPT ![col] = 1,
                              !.success_count = SuccessInt(success),
                              !.failure_count = 1 - SuccessInt(success)])

\* INSERT INTO daily_stats ... ON CONFLICT(date) DO UPDATE SET ...
UpsertStats(stats, date, col, success) ==
    IF date \in DOMAIN stats
    THEN [stats EXCEPT ![date] =
            [@ EXCEPT ![col] = @ + 1,
                      !.success_count = @ + SuccessInt(success),
                      !.failure_count = @ + (1 - SuccessInt(success))]]
    ELSE stats @@ (date :>
            [ZeroStats EXCEPT ![col] = 1,
                              !.success_count = SuccessInt(success),
                              !.failure_count = 1 - SuccessInt(success)])

\* if action_col in [...]: cursor.execute(upsert)
UpdateDailyStats(stats, r, date) ==
    IF ActionCol(r.action) \in StatCols
    THEN UpsertStats(stats, date, ActionCol(r.action), r.success)
    ELSE stats

\* is_engaged with AND success = 1 added to the query
is_engaged_success_only(rows, post_id) ==
    Cardinality({k \in DOMAIN rows :
        /\ rows[k].post_id = post_id
        /\ rows[k].action = "comment"
        /\ rows[k].success = 1}) > 0

\* SELECT COUNT(*) FROM engagements WHERE post_id = ? AND action = 'comment'
is_engaged(rows, post_id) ==
    Cardinality({k \in DOMAIN rows :
        rows[k].post_id = post_id /\ rows[k].action = "comment"}) > 0

(***************************************************************************)
(* core/discovery.py                                                       *)
(***************************************************************************)
Min(a, b) == IF a < b THEN a ELSE b
Max(a, b) == IF a > b THEN a ELSE b

\* s[:n + 1]: the slice taken one element too far
SliceInclusive(s, n) ==
    IF n + 1 >= 0 THEN SubSeq(s, 1, Min(n + 1, Len(s)))
    ELSE SubSeq(s, 1, Max(Len(s) + n + 1, 0))

\* s[:n] of Python
Slice(s, n) ==
    IF n >= 0 THEN SubSeq(s, 1, Min(n, Len(s)))
    ELSE SubSeq(s, 1, Max(Len(s) + n, 0))

\* str.lower() on the strings of the model
Lower(s) == IF s = "#Climbing" THEN "#climbing" ELSE s

DiscoveryConfig(platforms, hashtags, keywords, min_likes, max_likes, posts_age_hours, limit, exclude_users, exclude_hashtags) ==
    [platforms |-> platforms, hashtags |-> hashtags, keywords |-> keywords,
     min_likes |-> min_likes, max_likes |-> max_likes,
     posts_age_hours |-> posts_age_hours, limit |-> limit,
     exclude_users |-> exclude_users, exclude_hashtags |-> exclude_hashtags]

\* Scores are kept in hundredths: likes / 100 is likes hundredths.
calculate_score(post, config) ==
    LET like_score == Min(post.likes, 1000)
        recency ==
            IF post.hours_old = NoTimestamp THEN 0
            ELSE IF post.hours_old < 1 THEN 500
            ELSE IF post.hours_old < 6 THEN 300
            ELSE IF post.hours_old < 24 THEN 100
            ELSE 0
        tags == {Lower(config.hashtags[k]) : k \in DOMAIN config.hashtags}
        hashtag_hits ==
            Cardinality({k \in DOMAIN post.hashtags :
                            Lower(post.hashtags[k]) \in tags})
        keyword_hits ==
            Cardinality({k \in DOMAIN config.keywords :
                            Lower(config.keywords[k]) \in post.content})
    IN  like_score + recency + 200 * hashtag_hits + 300 * keyword_hits

DiscoveredPost(post, score) == [post |-> post, engagement_score |-> score]

\* _evaluate_post testing the likes against min_likes only
evaluate_post_min_only(post, config) ==
    IF post.author \in {config.exclude_users[k] : k \in DOMAIN config.exclude_users}
    THEN <<>>
    ELSE IF \E k \in DOMAIN post.hashtags :
                post.hashtags[k] \in
                    {config.exclude_hashtags[j] : j \in DOMAIN config.exclude_hashtags}
    THEN <<>>
    ELSE IF post.likes < config.min_likes
    THEN <<>>
    ELSE <<DiscoveredPost(post, calculate_score(post, config))>>

\* Returns <<>> for None and <<d>> for a DiscoveredPost d.
evaluate_post(post, config) ==
    IF post.author \in {config.exclude_users[k] : k \in DOMAIN config.exclude_users}
    THEN <<>>
    ELSE IF \E k \in DOMAIN post.hashtags :
                post.hashtags[k] \in
                    {config.exclude_hashtags[j] : j \in DOMAIN config.exclude_hashtags}
    THEN <<>>
    ELSE IF post.likes < config.min_likes \/ post.likes > config.max_likes
    THEN <<>>
    ELSE <<DiscoveredPost(post, calculate_score(post, config))>>

RECURSIVE EvaluateAll(_, _)
EvaluateAll(ps, config) ==
    IF ps = <<>> THEN <<>>
    ELSE evaluate_post(Head(ps), config) \o EvaluateAll(Tail(ps), config)

\* What adapter.search_posts does on one call: it raises, or returns posts
SearchOutcome(raises, ps) == [raises |-> raises, posts |-> ps]

\* The loop of discover searching a platform whether or not it has an adapter
RECURSIVE DiscoverFromUnchecked(_, _, _, _)
DiscoverFromUnchecked(config, adps, search, k) ==
    IF k > Len(config.platforms) THEN <<>>
    ELSE LET platform == config.platforms[k]
             found ==
                IF search[platform].raises THEN <<>>
                ELSE EvaluateAll(search[platform].posts, config)
         IN  found \o DiscoverFromUnchecked(config, adps, search, k + 1)

\* The body of the for-platform loop of discover, from platform number k on
RECURSIVE DiscoverFrom(_, _, _, _)
DiscoverFrom(config, adps, search, k) ==
    IF k > Len(config.platforms) THEN <<>>
    ELSE LET platform == config.platforms[k]
             found ==
                IF platform \notin adps THEN <<>>
                ELSE IF search[platform].raises THEN <<>>
                ELSE EvaluateAll(search[platform].posts, config)
         IN  found \o DiscoverFrom(config, adps, search, k + 1)

\* A descending sort that puts an element before those of equal score
InsertByScoreUnstable(sorted, d) ==
    LET n == Cardinality({k \in DOMAIN sorted :
                 sorted[k].engagement_score > d.engagement_score})
    IN  SubSeq(sorted, 1, n) \o <<d>> \o SubSeq(sorted, n + 1, Len(sorted))

\* list.sort(key=score, reverse=True): stable, descending
InsertByScore(sorted, d) ==
    LET n == Cardinality({k \in DOMAIN sorted :
                 sorted[k].engagement_score >= d.engagement_score})
    IN  SubSeq(sorted, 1, n) \o <<d>> \o SubSeq(sorted, n + 1, Len(sorted))

RECURSIVE SortByScore(_)
SortByScore(s) ==
    IF s = <<>> THEN <<>>
    ELSE InsertByScore(SortByScore(SubSeq(s, 1, Len(s) - 1)), s[Len(s)])

discover(config, adps, search) ==
    Slice(SortByScore(DiscoverFrom(config, adps, search, 1)), config.limit)

\* The platforms discover invokes adapter.search_posts on: those the loop
\* does not leave at "if not adapter: continue"
SearchedPlatforms(config, adps) ==
    {config.platforms[k] : k \in DOMAIN config.platforms} \cap adps

(***************************************************************************)
(* core/engagement.py: comment generation                                  *)
(***************************************************************************)
EngagementConfig(max_daily, min_delay_seconds, max_delay_seconds, skip_already_engaged) ==
    [max_daily |-> max_daily, min_delay_seconds |-> min_delay_seconds,
     max_delay_seconds |-> max_delay_seconds,
     skip_already_engaged |-> skip_already_engaged]

\* A comment text is a pair: <<k, interest>> is template k formatted with
\* interest, <<0, text>> a text the completion capability produced.
NoComment == <<>>
NumTemplates == 8
\* templates 2 and 6 contain {interest}
Format(k, interest) == IF k \in {2, 6} THEN <<k, interest>> ELSE <<k, "">>

generate_template_comments(post) ==
    LET interest == IF post.hashtags # <<>> THEN post.hashtags[1] ELSE "this"
        comments == [k \in 1..NumTemplates |-> Format(k, interest)]
    IN  Slice(comments, 5)

\* What self.llm.complete returns.  json is "list" when the text holds a
\* [...] that json.loads reads (items is what it reads), "invalid" when it
\* holds a [...] that json.loads rejects, "absent" when it holds none; lines
\* are the stripped non-empty lines of the text with their lengths.
LLMResponse(raises, json, items, lines) ==
    [raises |-> raises, json |-> json, items |-> items, lines |-> lines]
Line(text, length) == [text |-> text, length |-> length]

LLMResponses ==
    { LLMResponse(TRUE, "absent", <<>>, <<>>),
      LLMResponse(FALSE, "list", <<<<0, "llm">>>>, <<>>),
      LLMResponse(FALSE, "list", <<>>, <<>>),
      LLMResponse(FALSE, "invalid", <<>>, <<>>),
      LLMResponse(FALSE, "absent", <<>>, <<Line("ok", 2), Line("llm", 30)>>),
      LLMResponse(FALSE, "absent", <<>>, <<Line("ok", 2)>>) }

RECURSIVE LongLines(_)
LongLines(lines) ==
    IF lines = <<>> THEN <<>>
    ELSE (IF Head(lines).length > 10 THEN <<<<0, Head(lines).text>>>> ELSE <<>>)
         \o LongLines(Tail(lines))

parse_comments(response) ==
    IF response.json = "list" THEN response.items
    ELSE IF response.json = "invalid" THEN <<>>
    ELSE LongLines(response.lines)

\* generate_comment whose except clause returns an empty list
generate_comment_no_fallback(post, llmw, response) ==
    IF llmw = "none" THEN generate_template_comments(post)
    ELSE IF response.raises THEN <<>>
    ELSE parse_comments(response)

generate_comment(post, llmw, response) ==
    IF llmw = "none" THEN generate_template_comments(post)
    ELSE IF response.raises THEN generate_template_comments(post)
    ELSE parse_comments(response)

(***************************************************************************)
(* Inputs of the model                                                     *)
(***************************************************************************)
DiscoveryConfigs ==
    { DiscoveryConfig(<<INSTAGRAM>>, <<"#climbing">>, <<>>, 50, 10000, 24, 2,
                      <<>>, <<>>),
      DiscoveryConfig(<<INSTAGRAM, TWITTER>>, <<>>, <<"rope">>, 0, 1000000, 24,
                      2, <<>>, <<>>) }

EngagementConfigs ==
    { EngagementConfig(2, 0, 1, TRUE),
      EngagementConfig(1, 0, 0, FALSE) }

\* Every delay random.randint can return under some configuration
DelayChoices ==
    UNION {c.min_delay_seconds .. c.max_delay_seconds : c \in EngagementConfigs}

AdapterSets == {{INSTAGRAM}, {INSTAGRAM, TWITTER}}

BoundedSeq(S, n) == UNION {[1..k -> S] : k \in 0..n}

\* What the searches of one discover call do, per platform
PlatformPosts(pf) == {p \in PostPool : p.platform = pf}

SearchOutcomesOf(pf) ==
    {SearchOutcome(TRUE, <<>>)} \cup
    {SearchOutcome(FALSE, ps) : ps \in BoundedSeq(PlatformPosts(pf), MaxSearch)}

SearchOutcomes ==
    {search \in [Platform -> UNION {SearchOutcomesOf(pf) : pf \in Platform}] :
        \A pf \in Platform : search[pf] \in SearchOutcomesOf(pf)}

(***************************************************************************)
(* core/engine.py: discover_and_engage                                     *)
(***************************************************************************)
\* Phase 2 without the filter
KeepAll(ds, rows, skip) == ds

\* Phase 2: [d for d in discovered if not is_engaged(d.post.post_id)]
FilterEngaged(ds, rows, skip) ==
    IF skip
    THEN LET NotEngaged(d) == ~is_engaged(rows, d.post.post_id)
         IN  SelectSeq(ds, NotEngaged)
    ELSE ds

\* posts_to_engage = [d.post for d in to_engage if d.post.platform == platform]
PostsToEngage(ds, platform) ==
    LET OnPlatform(d) == d.post.platform = platform
        sel == SelectSeq(ds, OnPlatform)
    IN  [k \in DOMAIN sel |-> sel[k].post]

\* [r for r in engagement_results if r.success]
Succeeded(rs) ==
    LET Ok(r) == r.success
    IN  SelectSeq(rs, Ok)

\* The failed bucket without its condition
FailedUnfiltered(rs) == rs

\* [r for r in engagement_results if not r.success]
Failed(rs) ==
    LET NotOk(r) == ~r.success
    IN  SelectSeq(rs, NotOk)

\* Phases 1 and 2 of discover_and_engage
DiscoverAndFilter(search) ==
    /\ pc = "idle"
    /\ calls < MaxCalls
    /\ calls' = calls + 1
    /\ discovered' = discover(discovery_config, adapters, search)
    /\ to_engage' = FilterEngaged(discovered', ledger,
                                  engagement_config.skip_already_engaged)
    /\ engaged' = <<>>
    /\ failed' = <<>>
    /\ platform_idx' = 1
    /\ ledger_at_call' = Len(ledger)
    /\ raised' = "none"
    /\ searched' = SearchedPlatforms(discovery_config, adapters)
    /\ pc' = "platforms"
    /\ UNCHANGED <<ledger, daily_stats, today, adapters, llm, discovery_config,
                   engagement_config, posts, i, delay, comment, result, results,
                   platformVars, writerVars, unitVars>>

\* Phase 3, one round of the loop over the platforms: no adapter, continue
SkipPlatform ==
    /\ pc = "platforms"
    /\ platform_idx <= Len(discovery_config.platforms)
    /\ discovery_config.platforms[platform_idx] \notin adapters
    /\ platform_idx' = platform_idx + 1
    /\ UNCHANGED <<ledger, daily_stats, today, adapters, llm, discovery_config,
                   engagement_config, pc, calls, discovered, to_engage, engaged,
                   failed, ledger_at_call, engageVars, platformVars, writerVars,
                   searched, unitVars>>

\* Phase 3: the call of engage for the next platform
EngageBegin ==
    /\ pc = "platforms"
    /\ platform_idx <= Len(discovery_config.platforms)
    /\ discovery_config.platforms[platform_idx] \in adapters
    /\ posts' = PostsToEngage(to_engage, discovery_config.platforms[platform_idx])
    /\ results' = <<>>
    /\ i' = 0
    /\ engage_comment_calls' = 0
    /\ pc' = "loop"
    /\ UNCHANGED <<ledger, daily_stats, today, adapters, llm, discovery_config,
                   engagement_config, calls, discovered, to_engage, engaged,
                   failed, platform_idx, ledger_at_call, delay, comment, result,
                   raised, comment_calls, slept, writerVars,
                   searched, unitVars>>

\* return results
Return ==
    /\ pc = "platforms"
    /\ platform_idx > Len(discovery_config.platforms)
    /\ pc' = "idle"
    /\ platform_idx' = 1
    /\ to_engage' = <<>>
    /\ UNCHANGED <<ledger, daily_stats, today, adapters, llm, discovery_config,
                   engagement_config, calls, discovered, engaged, failed,
                   ledger_at_call, engageVars, platformVars, writerVars,
                   searched, unitVars>>

(***************************************************************************)
(* core/engagement.py: engage                                              *)
(***************************************************************************)
\* The locals of engage once the call is over
EngageFrameGone ==
    /\ posts' = <<>>
    /\ i' = 0
    /\ delay' = 0
    /\ comment' = NoComment
    /\ result' = NoResult
    /\ results' = <<>>

\* for i, post in enumerate(posts) is exhausted, or i >= config.max_daily:
\* engage returns results, and the engine extends its two buckets
EngageReturn ==
    /\ pc = "loop"
    /\ (i >= Len(posts) \/ i >= engagement_config.max_daily)
    /\ engaged' = engaged \o Succeeded(results)
    /\ failed' = failed \o Failed(results)
    /\ platform_idx' = platform_idx + 1
    /\ pc' = "platforms"
    /\ EngageFrameGone
    /\ UNCHANGED <<ledger, daily_stats, today, adapters, llm, discovery_config,
                   engagement_config, calls, discovered, to_engage,
                   ledger_at_call, raised, platformVars, writerVars,
                   searched, unitVars>>

\* The loop sleeping only between two posts, not before the first
SleepSkippingFirst(d) ==
    /\ pc = "loop"
    /\ i < Len(posts)
    /\ i < engagement_config.max_daily
    /\ d \in engagement_config.min_delay_seconds ..
             engagement_config.max_delay_seconds
    /\ delay' = d
    /\ slept' = (i > 0)
    /\ pc' = "generate"
    /\ UNCHANGED <<ledger, daily_stats, today, engineVars, posts, i, comment,
                   result, results, raised, comment_calls,
                   engage_comment_calls, writerVars,
                   searched, unitVars>>

\* The loop with the limit test i > config.max_daily
SleepOverrun(d) ==
    /\ pc = "loop"
    /\ i < Len(posts)
    /\ i <= engagement_config.max_daily
    /\ d \in engagement_config.min_delay_seconds ..
             engagement_config.max_delay_seconds
    /\ delay' = d
    /\ slept' = TRUE
    /\ pc' = "generate"
    /\ UNCHANGED <<ledger, daily_stats, today, engineVars, posts, i, comment,
                   result, results, raised, comment_calls,
                   engage_comment_calls, writerVars,
                   searched, unitVars>>

\* if i >= config.max_daily: break (not taken);
\* delay = random.randint(min, max); await asyncio.sleep(delay)
Sleep(d) ==
    /\ pc = "loop"
    /\ i < Len(posts)
    /\ i < engagement_config.max_daily
    /\ d \in engagement_config.min_delay_seconds ..
             engagement_config.max_delay_seconds
    /\ delay' = d
    /\ slept' = TRUE
    /\ pc' = "generate"
    /\ UNCHANGED <<ledger, daily_stats, today, engineVars, posts, i, comment,
                   result, results, raised, comment_calls,
                   engage_comment_calls, writerVars,
                   searched, unitVars>>

\* The skip of a post without comments appending a failed outcome
GenerateRecordingSkip(response) ==
    /\ pc = "generate"
    /\ LET comments == generate_comment(posts[i + 1], llm, response)
       IN  IF comments = <<>>
           THEN /\ i' = i + 1
                /\ pc' = "loop"
                /\ results' = Append(results,
                        EngagementResult(FALSE, posts[i + 1].platform, "comment",
                                         posts[i + 1].post_id, NoComment,
                                         "failed"))
                /\ UNCHANGED comment
           ELSE /\ comment' = comments[1]
                /\ pc' = "comment"
                /\ UNCHANGED <<i, results>>
    /\ UNCHANGED <<ledger, daily_stats, today, engineVars, posts, delay, result,
                   raised, platformVars, writerVars,
                   searched, unitVars>>

\* comments = await self.generate_comment(post, config); if not comments:
\* continue; comment = comments[0]
Generate(response) ==
    /\ pc = "generate"
    /\ LET comments == generate_comment(posts[i + 1], llm, response)
       IN  IF comments = <<>>
           THEN /\ i' = i + 1
                /\ pc' = "loop"
                /\ UNCHANGED comment
           ELSE /\ comment' = comments[1]
                /\ pc' = "comment"
                /\ UNCHANGED i
    /\ UNCHANGED <<ledger, daily_stats, today, engineVars, posts, delay, result,
                   results, raised, platformVars, writerVars,
                   searched, unitVars>>

\* result = await adapter.comment(post.post_id, comment);
\* results.append(result)
AdapterComment(success) ==
    /\ pc = "comment"
    /\ LET post == posts[i + 1]
       IN  /\ result' = EngagementResult(success, post.platform, "comment",
                            post.post_id,
                            IF success THEN comment ELSE NoComment,
                            IF success THEN "" ELSE "failed")
           /\ comment_calls' =
                [comment_calls EXCEPT ![post.post_id] = @ + 1]
    /\ engage_comment_calls' = engage_comment_calls + 1
    /\ slept' = FALSE
    /\ results' = Append(results, result')
    /\ pc' = "callback"
    /\ UNCHANGED <<ledger, daily_stats, today, engineVars, posts, i, delay,
                   comment, raised, writerVars,
                   searched, unitVars>>

\* The exception reaches the caller of discover_and_engage: the frames of
\* engage and discover_and_engage are gone, nothing is returned
Propagate(exception) ==
    /\ raised' = exception
    /\ pc' = "idle"
    /\ posts' = <<>>
    /\ i' = 0
    /\ delay' = 0
    /\ comment' = NoComment
    /\ result' = NoResult
    /\ results' = <<>>
    /\ discovered' = <<>>
    /\ to_engage' = <<>>
    /\ engaged' = <<>>
    /\ failed' = <<>>
    /\ platform_idx' = 1
    /\ ledger_at_call' = Len(ledger)

\* adapter.comment raises: nothing in engage or discover_and_engage catches
AdapterCommentRaises ==
    /\ pc = "comment"
    /\ comment_calls' =
            [comment_calls EXCEPT ![posts[i + 1].post_id] = @ + 1]
    /\ engage_comment_calls' = engage_comment_calls + 1
    /\ slept' = FALSE
    /\ Propagate("comment")
    /\ UNCHANGED <<ledger, daily_stats, today, adapters, llm, discovery_config,
                   engagement_config, calls, writerVars,
                   searched, unitVars>>

\* record storing successful outcomes only
RecordSuccessesOnly(r) ==
    /\ ledger' = IF r.success THEN InsertEngagement(ledger, r, today) ELSE ledger
    /\ daily_stats' = IF r.success THEN UpdateDailyStats(daily_stats, r, today)
                      ELSE daily_stats

\* Analytics.record as one transaction: INSERT, upsert, commit
Record(r) ==
    /\ ledger' = InsertEngagement(ledger, r, today)
    /\ daily_stats' = UpdateDailyStats(daily_stats, r, today)

\* The callback handing the ledger write to a task that has not run yet
CallbackDeferred ==
    /\ pc = "callback"
    /\ i' = i + 1
    /\ pc' = "loop"
    /\ UNCHANGED <<ledger, daily_stats, today, engineVars, posts, delay,
                   comment, result, results, raised, platformVars, writerVars,
                   searched, unitVars>>

\* if engagement_callback: engagement_callback(post, result), which is
\* SocialEngagementEngine._on_engagement
Callback ==
    /\ pc = "callback"
    /\ Record(result)
    /\ i' = i + 1
    /\ pc' = "loop"
    /\ UNCHANGED <<today, engineVars, posts, delay, comment, result, results,
                   raised, platformVars, writerVars,
                   searched, unitVars>>

\* self.analytics.record raises (sqlite3.Error): nothing is committed and
\* the exception leaves the callback, engage and discover_and_engage
CallbackRaises ==
    /\ pc = "callback"
    /\ Propagate("callback")
    /\ UNCHANGED <<ledger, daily_stats, today, adapters, llm, discovery_config,
                   engagement_config, calls, platformVars, writerVars,
                   searched, unitVars>>

\* Midnight passes
DayTick ==
    /\ today < MaxDays
    /\ today' = today + 1
    /\ UNCHANGED <<ledger, daily_stats, pc, engineVars, engageVars,
                   platformVars, writerVars,
                   searched, unitVars>>

(***************************************************************************)
(* core/analytics.py: record, statement by statement, on the connections   *)
(* of two processes that share engagement.db.  sqlite3 opens a transaction *)
(* before the INSERT; the first write takes the database's write lock,     *)
(* which the connection keeps until commit or rollback.                    *)
(***************************************************************************)
Writers == {1, 2}
NoLock == 0

\* The results record is called with
RecordInputs ==
    {EngagementResult(success, INSTAGRAM, action, post_id, NoComment,
                      IF success THEN "" ELSE "failed") :
        success \in BOOLEAN, action \in Actions, post_id \in {"p1", "p2"}}

WriterIdle(w) ==
    /\ wpc' = [wpc EXCEPT ![w] = "idle"]
    /\ wresult' = [wresult EXCEPT ![w] = NoResult]
    /\ wdate' = [wdate EXCEPT ![w] = 0]
    /\ wrow' = [wrow EXCEPT ![w] = <<>>]
    /\ wstats' = [wstats EXCEPT ![w] = <<>>]

\* conn = sqlite3.connect(self.db_path); cursor = conn.cursor()
RecordConnect(w, r) ==
    /\ wpc[w] = "idle"
    /\ Len(ledger) + Cardinality({v \in Writers : wpc[v] # "idle"}) < MaxRecords
    /\ wpc' = [wpc EXCEPT ![w] = "insert"]
    /\ wresult' = [wresult EXCEPT ![w] = r]
    /\ UNCHANGED <<ledger, daily_stats, today, pc, engineVars, engageVars,
                   platformVars, wdate, wrow, wstats, lock,
                   searched, unitVars>>

\* The INSERT on a connection in autocommit mode: committed at once
RecordInsertAutocommit(w) ==
    /\ wpc[w] = "insert"
    /\ lock = NoLock
    /\ ledger' = InsertEngagement(ledger, wresult[w], today)
    /\ wdate' = [wdate EXCEPT ![w] = today]
    /\ wpc' = [wpc EXCEPT ![w] = "upsert"]
    /\ UNCHANGED <<daily_stats, today, pc, engineVars, engageVars,
                   platformVars, wresult, wrow, wstats, lock,
                   searched, unitVars>>

\* cursor.execute(INSERT INTO engagements ...); date = datetime.now()...
RecordInsert(w) ==
    /\ wpc[w] = "insert"
    /\ lock = NoLock
    /\ lock' = w
    /\ wdate' = [wdate EXCEPT ![w] = today]
    /\ wrow' = [wrow EXCEPT ![w] = <<EngagementRow(ledger, wresult[w], today)>>]
    /\ wstats' = [wstats EXCEPT ![w] = daily_stats]
    /\ wpc' = [wpc EXCEPT ![w] = "upsert"]
    /\ UNCHANGED <<ledger, daily_stats, today, pc, engineVars, engageVars,
                   platformVars, wresult,
                   searched, unitVars>>

\* The INSERT finds the write lock taken: after the busy timeout execute
\* raises sqlite3.OperationalError, which leaves record
RecordBusy(w) ==
    /\ wpc[w] = "insert"
    /\ lock \notin {NoLock, w}
    /\ WriterIdle(w)
    /\ UNCHANGED <<ledger, daily_stats, today, pc, engineVars, engageVars,
                   platformVars, lock,
                   searched, unitVars>>

\* action_col = ...; if action_col in [...]: cursor.execute(upsert)
RecordUpsert(w) ==
    /\ wpc[w] = "upsert"
    /\ wstats' = [wstats EXCEPT ![w] =
                    UpdateDailyStats(IF lock = w THEN wstats[w] ELSE daily_stats,
                                     wresult[w], wdate[w])]
    /\ wpc' = [wpc EXCEPT ![w] = "commit"]
    /\ UNCHANGED <<ledger, daily_stats, today, pc, engineVars, engageVars,
                   platformVars, wresult, wdate, wrow, lock,
                   searched, unitVars>>

\* conn.commit(); conn.close()
RecordCommit(w) ==
    /\ wpc[w] = "commit"
    /\ ledger' = ledger \o wrow[w]
    /\ daily_stats' = wstats[w]
    /\ lock' = IF lock = w THEN NoLock ELSE lock
    /\ WriterIdle(w)
    /\ UNCHANGED <<today, pc, engineVars, engageVars, platformVars,
                   searched, unitVars>>

\* The process dies inside record: sqlite rolls its open transaction back
Crash(w) ==
    /\ wpc[w] # "idle"
    /\ lock' = IF lock = w THEN NoLock ELSE lock
    /\ WriterIdle(w)
    /\ UNCHANGED <<ledger, daily_stats, today, pc, engineVars, engageVars,
                   platformVars,
                   searched, unitVars>>

(***************************************************************************)
(* core/discovery.py: discover, one round of its loop per step             *)
(***************************************************************************)
\* The posts the searches of the discovery runs draw from: PostPool, a post
\* under min_likes, one over max_likes and two that tie with others
DiscoveryPosts ==
    PostPool \cup
    { Post(INSTAGRAM, "p4", "dave", 10, 2, <<"#climbing">>, {}),
      Post(INSTAGRAM, "p5", "erin", 20000, 5, <<>>, {"rope"}),
      Post(INSTAGRAM, "p6", "frank", 400, 30, <<>>, {}),
      Post(TWITTER, "p7", "gina", 400, NoTimestamp, <<>>, {}) }

SearchResults(pf) ==
    BoundedSeq({p \in DiscoveryPosts : p.platform = pf}, MaxSearch)

DiscoveryInputs ==
    LET base ==
            { DiscoveryConfig(<<INSTAGRAM>>, <<"#climbing">>, <<>>, 50, 10000,
                              24, 2, <<>>, <<>>),
              DiscoveryConfig(<<INSTAGRAM, TWITTER>>, <<>>, <<"rope">>, 0,
                              1000000, 24, 2, <<>>, <<>>),
              DiscoveryConfig(<<TWITTER, INSTAGRAM>>, <<"#climbing">>, <<>>, 50,
                              10000, 24, 2, <<"alice">>, <<"#bouldering">>) }
    IN  {[c EXCEPT !.limit = n] : c \in base, n \in 0..MaxLimit}

NoSearch == [pf \in Platform |-> SearchOutcome(FALSE, <<>>)]

\* adapter = self.adapters.get(platform); if not adapter: continue
DiscoverSkip ==
    /\ dpc = "platforms"
    /\ dk <= Len(discovery_config.platforms)
    /\ discovery_config.platforms[dk] \notin adapters
    /\ dk' = dk + 1
    /\ UNCHANGED <<ledger, daily_stats, today, pc, engineVars, engageVars,
                   platformVars, writerVars, searched, dpc, candidates, searches,
                   gen_log>>

\* posts = await adapter.search_posts(...); for post in posts: discovered =
\* self._evaluate_post(post, config); if discovered: results.append(it)
DiscoverSearch(ps) ==
    /\ dpc = "platforms"
    /\ dk <= Len(discovery_config.platforms)
    /\ discovery_config.platforms[dk] \in adapters
    /\ ps \in SearchResults(discovery_config.platforms[dk])
    /\ searched' = searched \cup {discovery_config.platforms[dk]}
    /\ searches' = [searches EXCEPT ![discovery_config.platforms[dk]] =
                    SearchOutcome(FALSE, ps)]
    /\ candidates' = candidates \o EvaluateAll(ps, discovery_config)
    /\ dk' = dk + 1
    /\ UNCHANGED <<ledger, daily_stats, today, pc, engineVars, engageVars,
                   platformVars, writerVars, dpc, gen_log>>

\* adapter.search_posts raises and nothing catches: discover is left
DiscoverSearchRaisesUncaught ==
    /\ dpc = "platforms"
    /\ dk <= Len(discovery_config.platforms)
    /\ discovery_config.platforms[dk] \in adapters
    /\ searched' = searched \cup {discovery_config.platforms[dk]}
    /\ searches' = [searches EXCEPT ![discovery_config.platforms[dk]] =
                    SearchOutcome(TRUE, <<>>)]
    /\ dpc' = "raised"
    /\ UNCHANGED <<ledger, daily_stats, today, pc, engineVars, engageVars,
                   platformVars, writerVars, dk, candidates, gen_log>>

\* adapter.search_posts raises: except Exception as e: print(...)
DiscoverSearchRaises ==
    /\ dpc = "platforms"
    /\ dk <= Len(discovery_config.platforms)
    /\ discovery_config.platforms[dk] \in adapters
    /\ searched' = searched \cup {discovery_config.platforms[dk]}
    /\ searches' = [searches EXCEPT ![discovery_config.platforms[dk]] =
                    SearchOutcome(TRUE, <<>>)]
    /\ dk' = dk + 1
    /\ UNCHANGED <<ledger, daily_stats, today, pc, engineVars, engageVars,
                   platformVars, writerVars, dpc, candidates, gen_log>>

\* results.sort(key=..., reverse=True); return results[:config.limit]
DiscoverReturn ==
    /\ dpc = "platforms"
    /\ dk > Len(discovery_config.platforms)
    /\ discovered' = Slice(SortByScore(candidates), discovery_config.limit)
    /\ dpc' = "returned"
    /\ UNCHANGED <<ledger, daily_stats, today, pc, adapters, llm,
                   discovery_config, engagement_config, calls, to_engage,
                   engaged, failed, platform_idx, ledger_at_call, engageVars,
                   platformVars, writerVars, searched, dk, candidates, searches,
                   gen_log>>

(***************************************************************************)
(* core/engagement.py: generate_comment, one call per step                 *)
(***************************************************************************)
GenerateCall(post, response, comments) ==
    [post |-> post, response |-> response, comments |-> comments]

\* self.llm.complete is not invoked
NoResponse == LLMResponse(FALSE, "absent", <<>>, <<>>)

\* if not self.llm: return self._generate_template_comments(post)
GenerateWithoutLLM(post) ==
    /\ llm = "none"
    /\ Len(gen_log) < MaxGenerate
    /\ gen_log' = Append(gen_log,
            GenerateCall(post, NoResponse,
                         generate_comment(post, llm, NoResponse)))
    /\ UNCHANGED <<ledger, daily_stats, today, pc, engineVars, engageVars,
                   platformVars, writerVars, searched, discoverVars>>

\* try: response = self.llm.complete(...); return self._parse_comments(it)
\* except Exception: return self._generate_template_comments(post)
GenerateWithLLM(post, response) ==
    /\ llm = "configured"
    /\ Len(gen_log) < MaxGenerate
    /\ gen_log' = Append(gen_log,
            GenerateCall(post, response,
                         generate_comment(post, llm, response)))
    /\ UNCHANGED <<ledger, daily_stats, today, pc, engineVars, engageVars,
                   platformVars, writerVars, searched, discoverVars>>

(***************************************************************************)
(* Spec: an engine over an empty engagement.db                             *)
(***************************************************************************)
InitDb ==
    /\ ledger = <<>>
    /\ daily_stats = <<>>
    /\ today = 1

InitWriters ==
    /\ wpc = [w \in Writers |-> "idle"]
    /\ wresult = [w \in Writers |-> NoResult]
    /\ wdate = [w \in Writers |-> 0]
    /\ wrow = [w \in Writers |-> <<>>]
    /\ wstats = [w \in Writers |-> <<>>]
    /\ lock = 0

InitEngine ==
    /\ pc = "idle"
    /\ calls = 0
    /\ discovered = <<>>
    /\ to_engage = <<>>
    /\ engaged = <<>>
    /\ failed = <<>>
    /\ platform_idx = 1
    /\ ledger_at_call = 0
    /\ posts = <<>>
    /\ i = 0
    /\ delay = 0
    /\ comment = NoComment
    /\ result = NoResult
    /\ results = <<>>
    /\ raised = "none"
    /\ comment_calls = [p \in PostIds |-> 0]
    /\ engage_comment_calls = 0
    /\ slept = FALSE

\* Neither discover nor generate_comment is running on its own
InitUnits ==
    /\ searched = {}
    /\ dpc = "idle"
    /\ dk = 1
    /\ candidates = <<>>
    /\ searches = NoSearch
    /\ gen_log = <<>>

Init ==
    /\ InitDb
    /\ InitWriters
    /\ InitEngine
    /\ InitUnits
    /\ adapters \in AdapterSets
    /\ llm \in {"none", "configured"}
    /\ discovery_config \in DiscoveryConfigs
    /\ engagement_config \in EngagementConfigs

Next ==
    \/ \E search \in SearchOutcomes : DiscoverAndFilter(search)
    \/ SkipPlatform
    \/ EngageBegin
    \/ Return
    \/ EngageReturn
    \/ \E d \in DelayChoices : Sleep(d)
    \/ \E response \in LLMResponses : Generate(response)
    \/ \E success \in BOOLEAN : AdapterComment(success)
    \/ AdapterCommentRaises
    \/ Callback
    \/ CallbackRaises

Spec == Init /\ [][Next]_vars

(***************************************************************************)
(* SpecLedger: two processes recording into one engagement.db              *)
(***************************************************************************)
InitLedger ==
    /\ InitDb
    /\ InitWriters
    /\ InitEngine
    /\ InitUnits
    /\ adapters = {INSTAGRAM}
    /\ llm = "none"
    /\ discovery_config = DiscoveryConfig(<<INSTAGRAM>>, <<>>, <<>>, 0, 1000000,
                                          24, 20, <<>>, <<>>)
    /\ engagement_config = EngagementConfig(20, 30, 120, TRUE)

NextLedger ==
    \/ \E w \in Writers, r \in RecordInputs : RecordConnect(w, r)
    \/ \E w \in Writers : RecordInsert(w)
    \/ \E w \in Writers : RecordBusy(w)
    \/ \E w \in Writers : RecordUpsert(w)
    \/ \E w \in Writers : RecordCommit(w)
    \/ \E w \in Writers : Crash(w)
    \/ DayTick

SpecLedger == InitLedger /\ [][NextLedger]_vars

(***************************************************************************)
(* SpecDiscovery: one Discovery.discover call, over every configuration,   *)
(* adapter registry and outcome of the searches                            *)
(***************************************************************************)
InitDiscovery ==
    /\ InitDb
    /\ InitWriters
    /\ InitEngine
    /\ adapters \in SUBSET Platform
    /\ llm = "none"
    /\ discovery_config \in DiscoveryInputs
    /\ engagement_config = EngagementConfig(20, 30, 120, TRUE)
    /\ searched = {}
    /\ dpc = "platforms"
    /\ dk = 1
    /\ candidates = <<>>
    /\ searches = NoSearch
    /\ gen_log = <<>>

NextDiscovery ==
    \/ DiscoverSkip
    \/ \E ps \in SearchResults(INSTAGRAM) \cup SearchResults(TWITTER) :
            DiscoverSearch(ps)
    \/ DiscoverSearchRaises
    \/ DiscoverReturn

SpecDiscovery == InitDiscovery /\ [][NextDiscovery]_vars

(***************************************************************************)
(* SpecGenerate: Engagement.generate_comment called for post after post    *)
(***************************************************************************)
InitGenerate ==
    /\ InitDb
    /\ InitWriters
    /\ InitEngine
    /\ InitUnits
    /\ adapters = {INSTAGRAM}
    /\ llm \in {"none", "configured"}
    /\ discovery_config = DiscoveryConfig(<<INSTAGRAM>>, <<>>, <<>>, 0, 1000000,
                                          24, 20, <<>>, <<>>)
    /\ engagement_config = EngagementConfig(20, 30, 120, TRUE)

NextGenerate ==
    \/ \E post \in PostPool : GenerateWithoutLLM(post)
    \/ \E post \in PostPool, response \in LLMResponses :
            GenerateWithLLM(post, response)

SpecGenerate == InitGenerate /\ [][NextGenerate]_vars

(***************************************************************************)
(* Properties                                                              *)
(***************************************************************************)
HasSuccessfulComment(rows, p) ==
    \E k \in DOMAIN rows :
        rows[k].post_id = p /\ rows[k].action = "comment" /\ rows[k].success = 1

\* The rows the ledger held when the current discover_and_engage call began
LedgerAtCall == SubSeq(ledger, 1, ledger_at_call)
\* The rows the current discover_and_engage call has added
NewRows == SubSeq(ledger, ledger_at_call + 1, Len(ledger))

\* C1: with skip_already_engaged = true, adapter.comment is invoked at most
\* once per post id over all discover_and_engage calls, also within one call.
C1_CommentAtMostOncePerPost ==
    engagement_config.skip_already_engaged =>
        \A p \in PostIds : comment_calls[p] <= 1

\* C2: once record has stored a successful comment outcome for post P,
\* is_engaged(P) is true in every later state, Phase 2 of every later
\* discover_and_engage call with skip_already_engaged = true drops P, and no
\* post with id P is passed to Engagement.engage by that call.
C2_DedupIdempotent ==
    /\ [][\A p \in PostIds :
            HasSuccessfulComment(ledger, p) => is_engaged(ledger', p)]_vars
    /\ [][(pc = "idle" /\ pc' = "platforms"
            /\ engagement_config.skip_already_engaged)
          => \A k \in DOMAIN to_engage' :
                ~HasSuccessfulComment(ledger, to_engage'[k].post.post_id)]_vars
    /\ [][(pc = "platforms" /\ pc' = "loop"
            /\ engagement_config.skip_already_engaged)
          => \A k \in DOMAIN posts' :
                ~HasSuccessfulComment(LedgerAtCall, posts'[k].post_id)]_vars

\* A second call has discovered a post that has a successful comment on
\* record from the first call, and Phase 2 has dropped it.
C2_Witness ==
    /\ calls = 2
    /\ pc = "platforms"
    /\ engagement_config.skip_already_engaged
    /\ \E k \in DOMAIN discovered :
            HasSuccessfulComment(LedgerAtCall, discovered[k].post.post_id)
    /\ Len(to_engage) < Len(discovered)

\* C3: engage with max_daily = k returns at most k outcomes and invokes
\* adapter.comment at most k times, whatever the posts, the text generator
\* and the adapter do.
C3_DailyQuota ==
    /\ Len(results) <= engagement_config.max_daily
    /\ engage_comment_calls <= engagement_config.max_daily

\* engage has made max_daily attempts and input posts remain
C3_Witness ==
    /\ pc = "loop"
    /\ i = engagement_config.max_daily
    /\ Len(posts) > engagement_config.max_daily
    /\ Len(results) = engagement_config.max_daily
    /\ engage_comment_calls = engagement_config.max_daily

\* C4: an error raised by adapter.comment is caught inside engage (a failed
\* outcome is appended and the loop goes on): no such exception leaves engage.
C4_CommentErrorCaught == raised # "comment"

\* C5: a failed outcome returned by adapter.comment is appended to the list
\* engage returns, is passed to the callback and written to the ledger as a
\* successful one is, and engage goes on with the next post: it returns only
\* when the posts are exhausted or the quota is reached.
C5_FailedOutcomeRecorded ==
    /\ [][(pc = "comment" /\ pc' = "callback")
          => /\ results' = Append(results, result')
             /\ result'.post_id = posts[i + 1].post_id]_vars
    /\ [][(pc = "callback" /\ pc' = "loop")
          => /\ Len(ledger') = Len(ledger) + 1
             /\ ledger'[Len(ledger')].post_id = result.post_id
             /\ ledger'[Len(ledger')].action = result.action
             /\ ledger'[Len(ledger')].success = SuccessInt(result.success)
             /\ results' = results
             /\ i' = i + 1]_vars
    /\ [][(pc = "loop" /\ pc' = "platforms")
          => (i >= Len(posts) \/ i >= engagement_config.max_daily)]_vars
    /\ [](pc = "loop" => Len(NewRows) >= Len(results))

\* The first attempt of an engage call failed and the second succeeded; both
\* outcomes are in the list and in the ledger.
C5_Witness ==
    /\ pc = "loop"
    /\ Len(results) = 2
    /\ ~results[1].success
    /\ results[2].success
    /\ Len(ledger) >= 2
    /\ ledger[Len(ledger) - 1].success = 0
    /\ ledger[Len(ledger) - 1].post_id = results[1].post_id
    /\ ledger[Len(ledger)].success = 1

\* C6: whenever adapter.comment is about to be invoked, a sleep has completed
\* since the previous invocation, and its duration lies in
\* [min_delay_seconds, max_delay_seconds] (so it is 0 when both are 0).
C6_SleepBeforeEveryAttempt ==
    pc = "comment" =>
        /\ slept
        /\ delay >= engagement_config.min_delay_seconds
        /\ delay <= engagement_config.max_delay_seconds
        /\ (engagement_config.min_delay_seconds = 0
            /\ engagement_config.max_delay_seconds = 0 => delay = 0)

\* The first adapter.comment of an engage call is about to be invoked under
\* min_delay_seconds = max_delay_seconds = 0
C6_Witness ==
    /\ pc = "comment"
    /\ i = 0
    /\ engage_comment_calls = 0
    /\ engagement_config.min_delay_seconds = 0
    /\ engagement_config.max_delay_seconds = 0
    /\ slept

RowsOn(d) == {k \in DOMAIN ledger : ledger[k].date = d}
RowsWith(d, Test(_)) == Cardinality({k \in RowsOn(d) : Test(ledger[k])})

\* C7: for every date, with N the number of record calls completed on that
\* date, the daily_stats row has success_count + failure_count = N and
\* comments_posted + likes_posted + follows_posted = N (no row when N = 0).
C7_AggregateConsistency ==
    \A d \in 1..MaxDays :
        IF d \in DOMAIN daily_stats
        THEN /\ daily_stats[d].success_count + daily_stats[d].failure_count
                    = Cardinality(RowsOn(d))
             /\ daily_stats[d].comments_posted + daily_stats[d].likes_posted
                    + daily_stats[d].follows_posted = Cardinality(RowsOn(d))
        ELSE RowsOn(d) = {}

\* Two records on one date: a successful and a failed one, of two actions
C7_Witness ==
    \E d \in DOMAIN daily_stats :
        /\ Cardinality(RowsOn(d)) = 2
        /\ daily_stats[d].success_count >= 1
        /\ daily_stats[d].failure_count >= 1
        /\ daily_stats[d].comments_posted >= 1
        /\ daily_stats[d].likes_posted >= 1

\* C8: in every durable state, also one a crash inside record leaves behind
\* and under every interleaving of two record calls, every stored engagements
\* row is counted exactly once in the daily_stats row of its date: per date,
\* each counter equals the number of stored rows it counts.
C8_RecordAtomic ==
    \A d \in 1..MaxDays :
        LET IsComment(r) == r.action = "comment"
            IsLike(r) == r.action = "like"
            IsFollow(r) == r.action = "follow"
            IsSuccess(r) == r.success = 1
            IsFailure(r) == r.success = 0
            row == IF d \in DOMAIN daily_stats THEN daily_stats[d] ELSE ZeroStats
        IN  /\ row.comments_posted = RowsWith(d, IsComment)
            /\ row.likes_posted = RowsWith(d, IsLike)
            /\ row.follows_posted = RowsWith(d, IsFollow)
            /\ row.success_count = RowsWith(d, IsSuccess)
            /\ row.failure_count = RowsWith(d, IsFailure)

\* One record call holds an uncommitted row and aggregate, which a crash
\* would roll back, while the other is at its INSERT
C8_Witness ==
    \E w \in Writers, v \in Writers :
        /\ w # v
        /\ wpc[w] = "commit"
        /\ lock = w
        /\ wrow[w] # <<>>
        /\ wstats[w] # daily_stats
        /\ wpc[v] = "insert"

\* C9: is_engaged(post_id) is true iff some stored record has that post id
\* and action comment, whatever its success flag; a like or follow record
\* never makes it true; once true it stays true.
C9_IsEngaged ==
    /\ [](\A p \in PostIds :
            is_engaged(ledger, p) <=>
                \E k \in DOMAIN ledger :
                    ledger[k].post_id = p /\ ledger[k].action = "comment")
    /\ [][\A p \in PostIds : is_engaged(ledger, p) => is_engaged(ledger', p)]_vars
    /\ [][\A p \in PostIds :
            (~is_engaged(ledger, p) /\ is_engaged(ledger', p))
            => /\ Len(ledger') = Len(ledger) + 1
               /\ ledger'[Len(ledger')].action = "comment"
               /\ ledger'[Len(ledger')].post_id = p]_vars

\* A failed comment on p1 and a successful like on p2 are stored: p1 is
\* engaged and p2 is not
C9_Witness ==
    /\ \E k \in DOMAIN ledger :
        ledger[k].post_id = "p1" /\ ledger[k].action = "comment"
            /\ ledger[k].success = 0
    /\ ~HasSuccessfulComment(ledger, "p1")
    /\ \E k \in DOMAIN ledger :
        ledger[k].post_id = "p2" /\ ledger[k].action = "like"
            /\ ledger[k].success = 1
    /\ is_engaged(ledger, "p1")
    /\ ~is_engaged(ledger, "p2")

\* C10: when discover_and_engage has returned, the successful outcomes of the
\* call are exactly the entries of engaged and the failed ones exactly the
\* entries of failed, in order, and the ledger has gained one record per
\* outcome: len(engaged) + len(failed) new records.
C10_BucketsAndLedger ==
    (pc = "idle" /\ calls > 0 /\ raised = "none") =>
        LET RowOk(r) == r.success = 1
            RowFailed(r) == r.success = 0
            ok == SelectSeq(NewRows, RowOk)
            ko == SelectSeq(NewRows, RowFailed)
        IN  /\ Len(NewRows) = Len(engaged) + Len(failed)
            /\ Len(ok) = Len(engaged)
            /\ Len(ko) = Len(failed)
            /\ \A k \in DOMAIN engaged :
                engaged[k].success /\ engaged[k].post_id = ok[k].post_id
            /\ \A k \in DOMAIN failed :
                ~failed[k].success /\ failed[k].post_id = ko[k].post_id

\* A call over two platforms has returned with a successful and a failed
\* outcome
C10_Witness ==
    /\ pc = "idle"
    /\ calls > 0
    /\ raised = "none"
    /\ Len(engaged) >= 1
    /\ Len(failed) >= 1
    /\ \E k \in DOMAIN engaged : engaged[k].platform # failed[1].platform

\* The successful comment records stored on date d
CommentsPostedOn(d) ==
    {k \in RowsOn(d) : ledger[k].action = "comment" /\ ledger[k].success = 1}

\* C11: over all engage and discover_and_engage calls made on one calendar
\* day, the number of comments posted is at most the configured daily limit
\* max_daily.
C11_DailyLimitAcrossCalls ==
    Cardinality(CommentsPostedOn(today)) <= engagement_config.max_daily

\* The configured platforms whose search has raised
FailedPlatforms == {pf \in searched : searches[pf].raises}

\* config with the platforms of S taken out of config.platforms
WithoutPlatforms(config, S) ==
    LET Kept(pf) == pf \notin S
    IN  [config EXCEPT !.platforms = SelectSeq(@, Kept)]

\* C12: when the search of one configured platform raises, discover still
\* returns, without raising; that platform contributes no candidate, and the
\* list returned is the one discover returns when the failing platform is not
\* configured at all.
C12_SearchFailureIsolated ==
    /\ [](dpc # "raised")
    /\ [][(\E pf \in Platform :
                pf \notin searched /\ pf \in searched' /\ searches'[pf].raises)
          => /\ candidates' = candidates
             /\ dk' = dk + 1
             /\ dpc' = "platforms"]_vars
    /\ [](dpc = "returned" =>
            /\ \A k \in DOMAIN discovered :
                    discovered[k].post.platform \notin FailedPlatforms
            /\ discovered =
                    discover(WithoutPlatforms(discovery_config, FailedPlatforms),
                             adapters, searches))

\* discover has returned candidates of the second configured platform after
\* the search of the first one raised
C12_Witness ==
    /\ dpc = "returned"
    /\ Len(discovery_config.platforms) = 2
    /\ discovery_config.platforms[1] \in FailedPlatforms
    /\ discovery_config.platforms[2] \in searched \ FailedPlatforms
    /\ discovered # <<>>

ConfiguredPlatforms ==
    {discovery_config.platforms[k] : k \in DOMAIN discovery_config.platforms}

\* C13: a configured platform without a registered adapter is skipped by the
\* discovery phase and by the engagement phase of discover_and_engage: its
\* search is not invoked and none of its posts is discovered, passed to engage
\* or commented on; skipping it raises nothing and changes nothing but the
\* position of the loop, which goes on with the next platform.
C13_MissingAdapterSkipped ==
    /\ [](searched \subseteq adapters)
    /\ [](\A k \in DOMAIN discovered : discovered[k].post.platform \in adapters)
    /\ [](\A k \in DOMAIN posts : posts[k].platform \in adapters)
    /\ [](\A p \in PostPool :
            p.platform \notin adapters => comment_calls[p.post_id] = 0)
    /\ [][(/\ pc = "platforms"
           /\ platform_idx <= Len(discovery_config.platforms)
           /\ discovery_config.platforms[platform_idx] \notin adapters)
          => /\ pc' = "platforms"
             /\ platform_idx' = platform_idx + 1
             /\ raised' = "none"
             /\ UNCHANGED <<ledger, comment_calls, discovered, to_engage,
                            engaged, failed>>]_vars

\* A call configured with a platform that has no adapter has returned: only
\* the other platform was searched, and a post of it was commented on
C13_Witness ==
    /\ pc = "idle"
    /\ calls > 0
    /\ raised = "none"
    /\ ConfiguredPlatforms \ adapters # {}
    /\ searched = ConfiguredPlatforms \cap adapters
    /\ engaged # <<>>

\* C14: the list discover returns has at most config.limit elements, whatever
\* the number of platforms and of posts each search returns.
C14_AtMostLimit ==
    dpc = "returned" => Len(discovered) <= discovery_config.limit

\* Two platforms have contributed more candidates than limit, and discover
\* has returned limit of them
C14_Witness ==
    /\ dpc = "returned"
    /\ discovery_config.limit >= 1
    /\ Len(candidates) > discovery_config.limit
    /\ Len(discovered) = discovery_config.limit
    /\ \E j \in DOMAIN candidates, k \in DOMAIN candidates :
            candidates[j].post.platform # candidates[k].post.platform

\* The number of elements equal to s[k] among the first k of s
Occurrence(s, k) == Cardinality({j \in 1..k : s[j] = s[k]})

\* The position in candidates of the element that discovered[k] is: equal
\* elements are matched in order
Encountered(k) ==
    CHOOSE n \in DOMAIN candidates :
        /\ candidates[n] = discovered[k]
        /\ Occurrence(candidates, n) = Occurrence(discovered, k)

\* C15: the list discover returns is in order of non-increasing score, and
\* candidates of equal score are in the order in which discover met them
\* (platforms in the order of config.platforms, posts in the order of each
\* search result).
C15_SortedStable ==
    dpc = "returned" =>
        /\ \A k \in DOMAIN discovered :
            \E n \in DOMAIN candidates :
                /\ candidates[n] = discovered[k]
                /\ Occurrence(candidates, n) = Occurrence(discovered, k)
        /\ \A j \in DOMAIN discovered, k \in DOMAIN discovered :
            j < k =>
                /\ discovered[j].engagement_score >= discovered[k].engagement_score
                /\ discovered[j].engagement_score = discovered[k].engagement_score
                    => Encountered(j) < Encountered(k)

\* discover has returned two different posts of equal score that come from
\* two platforms, and a post of lower score that was met before one of them
C15_Witness ==
    /\ dpc = "returned"
    /\ \E j \in DOMAIN discovered, k \in DOMAIN discovered :
            /\ j < k
            /\ discovered[j].post # discovered[k].post
            /\ discovered[j].post.platform # discovered[k].post.platform
            /\ discovered[j].engagement_score = discovered[k].engagement_score
    /\ \E j \in DOMAIN discovered, k \in DOMAIN discovered :
            /\ j < k
            /\ discovered[j].engagement_score > discovered[k].engagement_score
            /\ Encountered(j) > Encountered(k)

\* The posts the searches of this discover call have returned
SearchedPosts ==
    UNION {{searches[pf].posts[k] : k \in DOMAIN searches[pf].posts} :
                pf \in searched}

\* C16: no post with likes < min_likes or likes > max_likes is in the list
\* discover returns, whatever the configuration and the raw posts.
C16_LikesInRange ==
    dpc = "returned" =>
        \A k \in DOMAIN discovered :
            /\ discovered[k].post.likes >= discovery_config.min_likes
            /\ discovered[k].post.likes <= discovery_config.max_likes

\* The searches returned a post under min_likes, one over max_likes and one
\* in the range, and discover has returned
C16_Witness ==
    /\ dpc = "returned"
    /\ \E p \in SearchedPosts : p.likes < discovery_config.min_likes
    /\ \E p \in SearchedPosts : p.likes > discovery_config.max_likes
    /\ discovered # <<>>

\* C17: the list discover returns holds only posts of the last
\* posts_age_hours hours: no post whose timestamp is more than
\* config.posts_age_hours hours old is in it.
C17_OnlyRecentPosts ==
    dpc = "returned" =>
        \A k \in DOMAIN discovered :
            discovered[k].post.hours_old # NoTimestamp
                => discovered[k].post.hours_old <= discovery_config.posts_age_hours

\* C18: with a completion capability configured that raises on every call,
\* generate_comment returns the template comments for every post: a list
\* that is never empty and has at most 5 entries, so that engage, which
\* skips a post only on an empty list, skips none.
C18_FallbackWhenLLMRaises ==
    \A k \in DOMAIN gen_log :
        (llm = "configured" /\ gen_log[k].response.raises) =>
            /\ gen_log[k].comments = generate_template_comments(gen_log[k].post)
            /\ gen_log[k].comments # <<>>
            /\ Len(gen_log[k].comments) <= 5

\* The capability has raised on both of two calls, one for a post with a
\* hashtag and one for a post without
C18_Witness ==
    /\ llm = "configured"
    /\ Len(gen_log) >= 2
    /\ \A k \in DOMAIN gen_log : gen_log[k].response.raises
    /\ \E k \in DOMAIN gen_log : gen_log[k].post.hashtags # <<>>
    /\ \E k \in DOMAIN gen_log : gen_log[k].post.hashtags = <<>>

\* C19: when the completion capability returns a text that no comment can be
\* parsed from, generate_comment falls back to the template generator and
\* returns its non-empty list, not an empty one.
C19_FallbackWhenUnparseable ==
    \A k \in DOMAIN gen_log :
        (/\ llm = "configured"
         /\ ~gen_log[k].response.raises
         /\ parse_comments(gen_log[k].response) = <<>>) =>
            /\ gen_log[k].comments = generate_template_comments(gen_log[k].post)
            /\ gen_log[k].comments # <<>>

\* C20: engage stops only once max_daily attempts (invocations of
\* adapter.comment) have been made in the call; a post skipped for want of a
\* comment does not count: while fewer than max_daily attempts have been made
\* and posts remain, the loop goes on to the next post.
C20_SkippedPostsDoNotCount ==
    (/\ pc = "loop"
     /\ i < Len(posts)
     /\ engage_comment_calls < engagement_config.max_daily)
        => i < engagement_config.max_daily

\* C21: an error raised by the result callback for one post does not abort
\* the batch: no such exception leaves engage, which goes on with the
\* remaining posts and keeps the outcome whose callback failed in the list it
\* returns.
C21_CallbackFailureContained ==
    /\ [](raised # "callback")
    /\ [][pc = "callback" =>
            /\ pc' = "loop"
            /\ i' = i + 1
            /\ results' = results]_vars

\* C22: when generate_comment returns no comments for a post, engage invokes
\* no adapter.comment for it, appends no outcome, invokes no callback (the
\* ledger gains no record) and goes on with the next input post; an action is
\* only ever attempted with a comment.
C22_SkipLeavesNoTrace ==
    /\ [][(pc = "generate" /\ pc' # "comment")
          => /\ pc' = "loop"
             /\ i' = i + 1
             /\ raised' = raised
             /\ UNCHANGED <<posts, results, result, comment_calls,
                            engage_comment_calls, ledger, daily_stats>>]_vars
    /\ [](pc = "comment" => comment # NoComment)

\* The first post of an engage call was skipped, without outcome, attempt or
\* record, and the second one is about to be commented on
C22_Witness ==
    /\ pc = "comment"
    /\ i = 1
    /\ results = <<>>
    /\ engage_comment_calls = 0
    /\ comment_calls[posts[1].post_id] = 0
    /\ Len(ledger) = ledger_at_call

\* The outcomes the current discover_and_engage call has obtained so far
OutcomesOfCall == Len(engaged) + Len(failed) + Len(results)

\* C23: during discover_and_engage one engagement action at a time is under
\* way, within and across platforms, in the order sleep, generate, act,
\* callback: the position moves only along that cycle, at most one outcome is
\* without its ledger record, and only while its callback is due; when a
\* sleep, a generation or an action begins, every earlier outcome of the
\* call has its record.
C23_OneActionAtATime ==
    /\ [][pc' # pc =>
            <<pc, pc'>> \in
                { <<"idle", "platforms">>, <<"platforms", "loop">>,
                  <<"platforms", "idle">>, <<"loop", "generate">>,
                  <<"loop", "platforms">>, <<"generate", "loop">>,
                  <<"generate", "comment">>, <<"comment", "callback">>,
                  <<"comment", "idle">>, <<"callback", "loop">>,
                  <<"callback", "idle">> }]_vars
    /\ [](pc \in {"platforms", "loop", "generate", "comment"}
            => Len(NewRows) = OutcomesOfCall)
    /\ [](pc = "callback" => Len(NewRows) + 1 = OutcomesOfCall)
    /\ [](pc = "comment" => slept)
    /\ [][(pc = "comment" /\ pc' = "callback")
            => engage_comment_calls' = engage_comment_calls + 1]_vars

\* The first action on the second platform is about to start: the outcomes
\* of the first platform are recorded
C23_Witness ==
    /\ pc = "comment"
    /\ platform_idx = 2
    /\ i = 0
    /\ Len(engaged) + Len(failed) >= 1
    /\ Len(NewRows) = Len(engaged) + Len(failed)

====
